---------------------------- MODULE Spec2Model ----------------------------
(***************************************************************************)
(* Verification model of valkyrjs/event-store.                             *)
(*                                                                         *)
(*   StoreSpec   EventStore (libraries/event-store.ts) over the browser    *)
(*               and postgres providers: pushEvent and pushManyEvents      *)
(*               with their hooks.                                         *)
(*   ReduceSpec  the same store with reduce, snapshot.create and           *)
(*               snapshot.delete, under either snapshot policy.            *)
(*   LedgerSpec  the same store over the browser, postgres and mongo       *)
(*               providers: pushes, getEventStatus and checkOutdated.      *)
(*   QueueSpec   one Queue instance (libraries/queue.ts).                  *)
(*   ProjSpec    Projector: per-stream queues, once / on / all listeners.  *)
(*   ClockSpec   one HLC instance (libraries/hlc.ts) and the timestamp     *)
(*               strings made from it (libraries/time.ts).                 *)
(*   RelSpec     the relations provider of the three adapters.             *)
(*   AggSpec     AggregateRoot (libraries/aggregate.ts) instances of one   *)
(*               store: event, push, save and aggregate.push.              *)
(*   SnapshotSpec  the store over the three adapters with reduce and the   *)
(*               snapshot writes, on two streams.                          *)
(*   QueueLiveSpec  QueueSpec with handlers that settle (weak fairness).   *)
(*   LegacySpec  push and pushSequence of the pg and sqlite stores         *)
(*               (stores/utilities.ts), with calls interleaving.           *)
(*                                                                         *)
(* A push is split at its suspension points: the adapter call, the hook    *)
(* call and the handler call each settle in a step of their own, so that   *)
(* other steps may interleave as the runtime allows. The reads (reduce,    *)
(* snapshot.create, getEventStatus) are taken between pushes, in one step. *)
(***************************************************************************)
EXTENDS Integers, Sequences, FiniteSets, TLC

VARIABLES
  \* ---- event store ----
  adapter,      \* "browser" | "postgres" | "mongo": the providers the store was built with
  snapshotMode, \* EventStore.#snapshot: "manual" | "auto"
  hooks,        \* EventStore.#hooks: which hooks are registered
  ledger,       \* events table: the ids of the stored records
  snapshots,    \* snapshots table: sequence of rows in insertion order
  call,         \* the store method in progress and where it is suspended
  before,       \* ledger when the method in progress was called (history)
  inserted,     \* record lists handed to the adapter by the method in progress
  emitted,      \* record lists handed to onEventsInserted by the method in progress
  reduced,      \* what the last reduce call returned
  pendingUsed,  \* some reduce call so far was given pending records (history)
  written,      \* the last snapshot write of the store and how it ended, if any
  copies,       \* events table: the ids stored in more than one row
  checked,      \* what the last getEventStatus / checkOutdated call returned
  \* ---- one Queue instance ----
  queue,        \* the Queue: status, #queue and the jobs handed to the handler
  pushed,       \* number of messages pushed so far
  callbacks,    \* the completion callbacks invoked so far: <<message, "resolve" | "reject">>
  \* ---- projector ----
  listeners,    \* Projector.#listeners: the subscriptions currently registered
  queues,       \* Projector.#queues: stream -> Queue, undefined when absent
  messages,     \* the messages pushed so far; a message is named by its position
  running,      \* handler invocations in flight: <<subscription, message>>
  promises,     \* message -> state of the promise push returned for it
  reasons,      \* message -> the error its queue handler rejected with, if it did
  settlement,   \* the listener that settled last: what it called and threw
  \* ---- hybrid logical clock ----
  clock,        \* the HLC instance: last, its options, and the last option it was built with (history)
  stamps,       \* what the calls made on the clock returned, in call order (history)
  \* ---- relations provider ----
  relations,    \* relations table: sequence of rows in insertion order
  \* ---- aggregates ----
  aggregates,   \* aggregate -> AggregateRoot.#pending, the records not pushed yet
  saving,       \* the save / aggregate.push call made last and where it stands
  recorded,     \* what the EventStore.event call made last was given and how it ended
  \* ---- legacy stores (stores/pg, stores/sqlite) ----
  legacy,       \* the store: whether its push checks has(type), the events table, and the
                \* records handed to the contextor and the projector
  pushes        \* the push / pushSequence calls in flight and where each one is suspended

storeVars == <<adapter, snapshotMode, hooks, ledger, snapshots, call, before,
               inserted, emitted, reduced, pendingUsed, written,
               copies, checked>>

queueVars == <<queue, pushed, callbacks>>

projVars == <<listeners, queues, messages, running, promises, reasons, settlement>>

clockVars == <<clock, stamps>>

relVars == <<relations>>

aggVars == <<aggregates, saving, recorded>>

legacyVars == <<legacy, pushes>>

vars == <<storeVars, queueVars, projVars, clockVars, relVars, aggVars, legacyVars>>

\* what the steps of one part leave alone
notStore == <<queueVars, projVars, clockVars, relVars, aggVars, legacyVars>>

notQueue == <<storeVars, projVars, clockVars, relVars, aggVars, legacyVars>>

notProj == <<storeVars, queueVars, clockVars, relVars, aggVars, legacyVars>>

notClock == <<storeVars, queueVars, projVars, relVars, aggVars, legacyVars>>

notRel == <<queueVars, projVars, clockVars, aggVars, legacyVars>>

notAgg == <<queueVars, projVars, clockVars, relVars, legacyVars>>

notLegacy == <<storeVars, queueVars, projVars, clockVars, relVars, aggVars>>

-----------------------------------------------------------------------------
(* Generic helpers *)

Range(s) == {s[i] : i \in 1..Len(s)}

Min(a, b) == IF a < b THEN a ELSE b

None == "none"

\* An optional value (undefined, or a value) is a sequence of at most one element
Undefined == <<>>

Some(x) == <<x>>

RECURSIVE SeqsUpTo(_, _)
\* all sequences over S of length at most n
SeqsUpTo(S, n) ==
  IF n = 0 THEN {<<>>}
  ELSE LET shorter == SeqsUpTo(S, n - 1)
       IN shorter \cup {Append(s, x) : s \in {t \in shorter : Len(t) = n - 1}, x \in S}

-----------------------------------------------------------------------------
(* Bounds *)

MaxBatch == 2       \* longest batch drawn from the small records
MaxSnapshots == 2   \* most rows the snapshots table grows to
MaxMessages == 3    \* most messages pushed to the one Queue
MaxPushes == 2      \* most records pushed to the projector
MaxTicks == 3       \* most calls made on the clock
MaxRelations == 3   \* most rows of the relations table

-----------------------------------------------------------------------------
(* The state each part is constructed in *)

NoCall == [op |-> "none", records |-> <<>>, emit |-> TRUE, pc |-> "done",
           next |-> 1, error |-> None]

NoResult == [stream |-> None, pending |-> <<>>, outcome |-> None, value |-> <<>>]

NoStatus == [op |-> None, id |-> 0, exists |-> FALSE, outdated |-> FALSE]

NewQueue == [status |-> "idle", queue |-> <<>>, jobs |-> {}]

\* a store nothing was pushed to
StoreIdle ==
  /\ adapter = "browser"
  /\ snapshotMode = "manual"
  /\ hooks = [onEventsInserted |-> FALSE, onError |-> FALSE]
  /\ ledger = {}
  /\ snapshots = <<>>
  /\ call = NoCall
  /\ before = {}
  /\ inserted = <<>>
  /\ emitted = <<>>
  /\ reduced = NoResult
  /\ pendingUsed = FALSE
  /\ written = Undefined
  /\ copies = {}
  /\ checked = NoStatus

\* no error
NoError == [of |-> None, from |-> None]

NoSettlement == [mode |-> None, message |-> 0, resolves |-> TRUE, calls |-> <<>>, error |-> NoError]

\* a Queue nothing was pushed to
QueueIdle ==
  /\ queue = NewQueue
  /\ pushed = 0
  /\ callbacks = <<>>

\* Timestamp: wall-clock time and logical counter
Timestamp(time, logical) == [time |-> time, logical |-> logical]

\* a clock no call was made on
ClockIdle ==
  /\ clock = [last |-> Timestamp(0, 0), maxOffset |-> 0, timeUpperBound |-> 0,
              toleratedForwardClockJump |-> 0, options |-> [last |-> Undefined]]
  /\ stamps = <<>>

\* an empty relations table
RelIdle == relations = <<>>

Aggregates == {"a1", "a2"}

\* no save or aggregate.push call was made
NoSave == [op |-> None, of |-> <<>>, flush |-> TRUE, pc |-> "returned",
           batch |-> <<>>, calls |-> 0]

\* no event call was made since the last save or aggregate.push call
NoEvent == [payload |-> 0, outcome |-> None]

\* aggregates without pending records
AggIdle ==
  /\ aggregates = [a \in Aggregates |-> <<>>]
  /\ saving = NoSave
  /\ recorded = NoEvent

\* a legacy store with an empty events table and no call made
LegacyIdle ==
  /\ legacy = [typed |-> TRUE, events |-> <<>>, contextor |-> <<>>, projector |-> <<>>]
  /\ pushes = <<>>

Streams == {"s1", "s2"}

\* a projector without subscriptions
ProjIdle ==
  /\ listeners = {}
  /\ queues = [stream \in Streams |-> Undefined]
  /\ messages = <<>>
  /\ running = {}
  /\ promises = <<>>
  /\ reasons = <<>>
  /\ settlement = NoSettlement

-----------------------------------------------------------------------------
(* Event catalog and records *)

\* Registered event types (EventFactory index) and the schemas each one has.
EventTypes ==
  [type : {"user:created"}, data : {TRUE}, meta : {TRUE}] \cup
  [type : {"user:email-set"}, data : {TRUE}, meta : {FALSE}]

\* EventFactory.get: the registered event of a type, undefined when not registered
get(type) ==
  IF \E e \in EventTypes : e.type = type
  THEN Some(CHOOSE e \in EventTypes : e.type = type)
  ELSE Undefined

\* default batch size of the providers' insertMany
batchSize == 1000

\* The records the callers hold. A record is identified by its id; data and
\* meta are "null", "good" (parses under a schema) or "bad" (does not parse);
\* created is the position of the HLC timestamp in timestamp order.
Records ==
  << [id |-> 1, stream |-> "s1", type |-> "user:created",   data |-> "good", meta |-> "good", created |-> 2],
     [id |-> 2, stream |-> "s1", type |-> "user:email-set", data |-> "good", meta |-> "null", created |-> 3],
     [id |-> 3, stream |-> "s1", type |-> "user:created",   data |-> "null", meta |-> "good", created |-> 1],
     [id |-> 4, stream |-> "s2", type |-> "user:created",   data |-> "good", meta |-> "good", created |-> 4],
     [id |-> 5, stream |-> "s1", type |-> "user:email-set", data |-> "bad",  meta |-> "good", created |-> 5],
     [id |-> 6, stream |-> "s1", type |-> "user:unknown",   data |-> "null", meta |-> "null", created |-> 6] >>

\* one batch longer than batchSize, on a stream of its own
BulkBatch == [i \in 1..(batchSize + 1) |-> batchSize + i]

Rec(id) ==
  IF id \in 1..Len(Records) THEN Records[id]
  ELSE [id |-> id, stream |-> "bulk", type |-> "user:created",
        data |-> "good", meta |-> "good", created |-> id]

\* the records pushed where the claims are about the insert path: two that
\* pass validation, one that fails it, one of an unregistered type
PushIds == {1, 2, 5, 6}

PushBatches == SeqsUpTo(PushIds, MaxBatch) \cup {BulkBatch}

\* the records pushed where the claims are about reduction: all valid
ReduceIds == {1, 2, 3, 4}

ReduceBatches == {<<1, 2>>, <<3, 4>>, <<2, 2>>}

\* Event.validate: the list of errors the record raises against event e
validate(e, id) ==
  LET r == Rec(id)
      typeErrors == IF r.type # e.type THEN <<"type">> ELSE <<>>
      dataErrors ==
        IF r.data # "null"
        THEN IF ~e.data THEN <<"no data validator">>
             ELSE IF r.data = "bad" THEN <<"data">> ELSE <<>>
        ELSE <<>>
      metaErrors ==
        IF r.meta # "null"
        THEN IF ~e.meta THEN <<"no meta validator">>
             ELSE IF r.meta = "bad" THEN <<"meta">> ELSE <<>>
        ELSE <<>>
  IN typeErrors \o dataErrors \o metaErrors

-----------------------------------------------------------------------------
(* Providers *)

\* EventsProvider.getById
getById(id) == IF id \in ledger THEN Some(id) ELSE Undefined

RECURSIVE sortByCreated(_)
\* ORDER BY created ASC / sort: { created: 1 }
sortByCreated(ids) ==
  IF ids = {} THEN <<>>
  ELSE LET least == CHOOSE i \in ids : \A j \in ids : Rec(i).created <= Rec(j).created
       IN <<least>> \o sortByCreated(ids \ {least})

\* withCursor with the default direction: created > cursor
withCursor(id, cursor) == cursor = Undefined \/ Rec(id).created > cursor[1]

\* EventsProvider.getByStreams(streams, { cursor })
getByStreams(streams, cursor) ==
  sortByCreated({id \in ledger : Rec(id).stream \in streams /\ withCursor(id, cursor)})

\* The ids among the rows that the table holds already, or that occur twice
\* in the rows of one statement
duplicates(rows, table) ==
  (Range(rows) \cap table)
    \cup IF Cardinality(Range(rows)) = Len(rows) THEN {}
         ELSE {id \in Range(rows) : Cardinality({i \in 1..Len(rows) : rows[i] = id}) > 1}

\* The postgres table (id is its primary key) and the browser collection
\* reject rows with such an id. The mongo collection has no unique index on
\* id and the provider lets the server assign _id: it takes every document.
accepts(rows, table) ==
  adapter = "mongo" \/ duplicates(rows, table) = {}

\* JavaScript values a query result is made of: a number, NaN, and a row
\* object, here the row { count } of SELECT COUNT(*) AS count
JSNumber(n) == [kind |-> "number", value |-> n]

NaN == [kind |-> "NaN", value |-> 0]

Row(count) == [kind |-> "object", value |-> count]

\* Number(value): a number is itself; an object is converted through its
\* string form "[object Object]", which is not numeric
Number(v) == IF v.kind = "number" THEN v ELSE NaN

\* value > n, which is false when value is NaN
greaterThan(v, n) == v.kind = "number" /\ v.value > n

\* the stored records matching { stream, type, created: { $gt: created } }
newer(id) ==
  {other \in ledger : /\ Rec(other).stream = Rec(id).stream
                      /\ Rec(other).type = Rec(id).type
                      /\ Rec(other).created > Rec(id).created}

\* EventsProvider.checkOutdated. The browser and mongo providers compare
\* the count the collection returns; the postgres provider converts the
\* first row of the result, not its count column, with Number.
checkOutdated(id) ==
  LET count == Cardinality(newer(id))
  IN IF adapter = "postgres"
     THEN greaterThan(Number(Row(count)), 0)
     ELSE greaterThan(JSNumber(count), 0)

\* The slice of records the insertMany loop inserts at position i
slice(records, i) == SubSeq(records, i, Min(i + batchSize - 1, Len(records)))

\* SnapshotsProvider.getByStream: the first row of (name, stream)
snapshotsGetByStream(name, stream) ==
  LET match(row) == row.name = name /\ row.stream = stream
      rows == SelectSeq(snapshots, match)
  IN IF rows = <<>> THEN Undefined ELSE Some(rows[1])

\* SnapshotsProvider.insert: whether the INSERT is rejected. The postgres
\* table has UNIQUE (name, stream) and the provider issues a plain INSERT;
\* the browser collection has no unique index.
snapshotsInsertFails(name, stream) ==
  adapter = "postgres" /\ snapshotsGetByStream(name, stream) # Undefined

\* SnapshotsProvider.insert: the table after a successful insert. The
\* browser and postgres providers add a row; the mongo provider is
\* updateOne({ name }, { $set: { stream, cursor, state } }, { upsert: true }),
\* which overwrites the first document of that name when there is one.
snapshotsInsert(name, stream, cursor, state) ==
  LET row   == [name |-> name, stream |-> stream, cursor |-> cursor, state |-> state]
      named == {i \in 1..Len(snapshots) : snapshots[i].name = name}
  IN  IF adapter = "mongo" /\ named # {}
      THEN [snapshots EXCEPT ![CHOOSE i \in named : \A j \in named : i <= j] = row]
      ELSE Append(snapshots, row)

\* SnapshotsProvider.remove
snapshotsRemove(name, stream) ==
  LET keep(row) == ~(row.name = name /\ row.stream = stream)
  IN SelectSeq(snapshots, keep)

-----------------------------------------------------------------------------
(* Reducer *)

\* makeReducer(foldFn, stateFn).reduce with the fold that records every
\* event it is given, in the order given: the state is the list of ids.
reducerReduce(events, snapshot) ==
  (IF snapshot = Undefined THEN <<>> ELSE snapshot[1]) \o events

\* makeReducer(...).from
reducerFrom(snapshot) == snapshot

ReducerName == "user"

-----------------------------------------------------------------------------
(* EventStore *)

Finished(c) == c.pc \in {"done", "failed"}

StoreInit ==
  /\ adapter \in {"browser", "postgres"}
  /\ snapshotMode = "manual"
  /\ hooks \in [onEventsInserted : BOOLEAN, onError : BOOLEAN]
  /\ ledger = {}
  /\ snapshots = <<>>
  /\ call = NoCall
  /\ before = {}
  /\ inserted = <<>>
  /\ emitted = <<>>
  /\ reduced = NoResult
  /\ pendingUsed = FALSE
  /\ written = Undefined
  /\ copies = {}
  /\ checked = NoStatus
  /\ QueueIdle /\ ProjIdle /\ ClockIdle /\ RelIdle /\ AggIdle /\ LegacyIdle

\* a store without hooks, under either snapshot policy
ReduceInit ==
  /\ adapter \in {"browser", "postgres"}
  /\ snapshotMode \in {"manual", "auto"}
  /\ hooks = [onEventsInserted |-> FALSE, onError |-> FALSE]
  /\ ledger = {}
  /\ snapshots = <<>>
  /\ call = NoCall
  /\ before = {}
  /\ inserted = <<>>
  /\ emitted = <<>>
  /\ reduced = NoResult
  /\ pendingUsed = FALSE
  /\ written = Undefined
  /\ copies = {}
  /\ checked = NoStatus
  /\ QueueIdle /\ ProjIdle /\ ClockIdle /\ RelIdle /\ AggIdle /\ LegacyIdle

\* every record id a caller may hold
Ids == 1..(2 * batchSize + 1)

\* pushEvent / pushManyEvents, the two checks made of a record before the
\* adapter is called: its type is registered and validate finds no error
passes(id) ==
  /\ get(Rec(id).type) # Undefined
  /\ validate(get(Rec(id).type)[1], id) = <<>>

\* the records that pass (evaluated once)
Passing == {id \in Ids : passes(id)}

\* rejection with the validation of the record left out
rejectionTypeOnly(records) ==
  IF \E i \in 1..Len(records) : get(Rec(records[i]).type) = Undefined
  THEN "EventMissingError" ELSE None

\* pushEvent / pushManyEvents: the records are checked in order; the result
\* is None, or the error thrown for the first record that does not pass
rejection(records) ==
  LET failing == {i \in 1..Len(records) : records[i] \notin Passing}
  IN IF failing = {} THEN None
     ELSE LET first == CHOOSE i \in failing : \A j \in failing : i <= j
          IN IF get(Rec(records[first]).type) = Undefined
             THEN "EventMissingError" ELSE "EventValidationError"

\* hookCalls emitting once per record
hookCallsPerRecord(records, emit, ok) ==
  IF ok /\ emit /\ hooks.onEventsInserted
  THEN [i \in 1..Len(records) |-> <<records[i]>>] ELSE <<>>

\* The hook invocations made once the adapter has settled: one call with
\* the whole list when the insert succeeded, emit is not false and a hook
\* is registered.
hookCalls(records, emit, ok) ==
  IF ok /\ emit /\ hooks.onEventsInserted THEN <<records>> ELSE <<>>

\* The state of the call once the adapter has accepted all records
afterInsert(c) ==
  [c EXCEPT !.pc = IF hookCalls(c.records, c.emit, TRUE) # <<>> THEN "hook" ELSE "done"]

\* The call as it stands when the method reaches the adapter call, or has
\* thrown before it
started(op, records, emit) ==
  [op |-> op, records |-> records, emit |-> emit, next |-> 1,
   pc |-> IF rejection(records) = None THEN "insert" ELSE "failed",
   error |-> rejection(records)]

\* EventStore.pushEvent up to the adapter call
pushEvent(id, emit) ==
  /\ Finished(call)
  /\ call' = started("pushEvent", <<id>>, emit)
  /\ before' = ledger
  /\ inserted' = <<>>
  /\ emitted' = <<>>
  /\ reduced' = NoResult
  /\ UNCHANGED <<adapter, snapshotMode, hooks, ledger, snapshots, pendingUsed, written, copies, checked, notStore>>

\* EventStore.pushManyEvents up to the adapter call
pushManyEvents(records, emit) ==
  /\ Finished(call)
  /\ call' = started("pushManyEvents", records, emit)
  /\ before' = ledger
  /\ inserted' = <<>>
  /\ emitted' = <<>>
  /\ reduced' = NoResult
  /\ UNCHANGED <<adapter, snapshotMode, hooks, ledger, snapshots, pendingUsed, written, copies, checked, notStore>>

\* settle calling the hook whatever the adapter answered
settleEmitting(c, ok, table, twice) ==
  /\ ledger' = table
  /\ copies' = twice
  /\ call' = IF ok THEN afterInsert(c)
             ELSE [c EXCEPT !.pc = "failed", !.error = "EventInsertionError"]
  /\ emitted' = emitted \o hookCalls(c.records, c.emit, TRUE)
  /\ UNCHANGED <<adapter, snapshotMode, hooks, snapshots, before, reduced, pendingUsed, written,
                 checked, notStore>>

\* The adapter call of a push settles with the events table as given, twice
\* being the ids it then holds in more than one row: the
\* method throws EventInsertionError when it failed, and goes on to the
\* hook when it succeeded
settle(c, ok, table, twice) ==
  /\ ledger' = table
  /\ copies' = twice
  /\ call' = IF ok THEN afterInsert(c)
             ELSE [c EXCEPT !.pc = "failed", !.error = "EventInsertionError"]
  /\ emitted' = emitted \o hookCalls(c.records, c.emit, ok)
  /\ UNCHANGED <<adapter, snapshotMode, hooks, snapshots, before, reduced, pendingUsed, written,
                 checked, notStore>>

\* EventsProvider.insert settles, and pushEvent continues to the hook
insert(storageOk) ==
  /\ call.op = "pushEvent" /\ call.pc = "insert"
  /\ inserted' = Append(inserted, call.records)
  /\ LET ok == storageOk /\ accepts(call.records, ledger)
     IN settle(call, ok, IF ok THEN ledger \cup Range(call.records) ELSE ledger,
               IF ok THEN copies \cup duplicates(call.records, ledger) ELSE copies)

\* PostgresEventsProvider.insertMany settles: every slice is inserted in
\* one transaction, which commits all of them or none
insertManyPostgres(storageOk) ==
  /\ adapter = "postgres"
  /\ call.op = "pushManyEvents" /\ call.pc = "insert"
  /\ inserted' = Append(inserted, call.records)
  /\ LET ok == storageOk /\ accepts(call.records, ledger)
     IN settle(call, ok, IF ok THEN ledger \cup Range(call.records) ELSE ledger, copies)

\* MongoEventsProvider.insertMany settles: one ordered insertMany, which
\* stops at the first document the server fails on and keeps the documents
\* before it; done is the number of documents it stored
insertManyMongo(done) ==
  /\ adapter = "mongo"
  /\ call.op = "pushManyEvents" /\ call.pc = "insert"
  /\ done \in 0..Len(call.records)
  /\ inserted' = Append(inserted, call.records)
  /\ LET rows == SubSeq(call.records, 1, done)
     IN settle(call, done = Len(call.records), ledger \cup Range(rows),
               copies \cup duplicates(rows, ledger))

\* BrowserEventsProvider.insertMany: one turn of the loop, which awaits the
\* collection's insertMany of the slice at call.next. Slices inserted by
\* earlier turns stay in the collection when a later one fails.
insertManyBrowser(storageOk) ==
  /\ adapter = "browser"
  /\ call.op = "pushManyEvents" /\ call.pc = "insert"
  /\ inserted' = IF call.next = 1 THEN Append(inserted, call.records) ELSE inserted
  /\ LET rows == slice(call.records, call.next)
         ok   == storageOk /\ accepts(rows, ledger)
         c    == [call EXCEPT !.next = @ + batchSize]
     IN IF call.next > Len(call.records)
        THEN settle(call, TRUE, ledger, copies)
        ELSE IF ok /\ c.next <= Len(call.records)
             THEN /\ ledger' = ledger \cup Range(rows)
                  /\ call' = c
                  /\ UNCHANGED <<adapter, snapshotMode, hooks, snapshots, before,
                                 emitted, reduced, pendingUsed, written, copies, checked, notStore>>
             ELSE settle(c, ok, IF ok THEN ledger \cup Range(rows) ELSE ledger, copies)

\* hooks.onEventsInserted settles; a rejection goes to hooks.onError, or to
\* console.error when no onError hook is registered
onEventsInserted(resolves) ==
  /\ call.pc = "hook"
  /\ call' = [call EXCEPT !.pc = IF resolves \/ ~hooks.onError THEN "done" ELSE "onError"]
  /\ UNCHANGED <<adapter, snapshotMode, hooks, ledger, snapshots, before,
                 inserted, emitted, reduced, pendingUsed, written, copies, checked, notStore>>

\* hooks.onError settles; nothing catches its rejection
onError(resolves) ==
  /\ call.pc = "onError"
  /\ call' = IF resolves THEN [call EXCEPT !.pc = "done"]
             ELSE [call EXCEPT !.pc = "failed", !.error = "onError"]
  /\ UNCHANGED <<adapter, snapshotMode, hooks, ledger, snapshots, before,
                 inserted, emitted, reduced, pendingUsed, written, copies, checked, notStore>>

\* pending events a reduce caller may pass: none, or one record that is not
\* committed yet
Pendings == {<<>>, <<2>>}

\* a snapshot write and how it ended
Write(stream, cursor, state, outcome) ==
  Some([stream |-> stream, cursor |-> cursor, state |-> state, outcome |-> outcome])

\* reduce finding no event, returning undefined whatever the snapshot
withoutEventsUndefined(stream, pending, state) ==
  [stream |-> stream, pending |-> pending, outcome |-> "undefined", value |-> <<>>]

\* EventStore.reduce when it finds no event: reducer.from(state) when a
\* snapshot gave a state, undefined otherwise
withoutEvents(stream, pending, state) ==
  IF state # Undefined
  THEN [stream |-> stream, pending |-> pending, outcome |-> "value", value |-> reducerFrom(state[1])]
  ELSE [stream |-> stream, pending |-> pending, outcome |-> "undefined", value |-> <<>>]

\* reduce writing the snapshot under either policy
autoAlways(mode) == TRUE

\* EventStore.reduce: this.#snapshot === "auto"
auto(mode) == mode = "auto"

\* EventStore.reduce({ name, stream, reducer }, pending)
reduce(stream, pending) ==
  /\ Finished(call)
  /\ Range(pending) \cap ledger = {}
  /\ LET snapshot == snapshotsGetByStream(ReducerName, stream)
         cursor   == IF snapshot # Undefined THEN Some(snapshot[1].cursor) ELSE Undefined
         state    == IF snapshot # Undefined THEN Some(snapshot[1].state) ELSE Undefined
         events   == getByStreams({stream}, cursor) \o pending
         result   == reducerReduce(events, state)
         created  == Rec(events[Len(events)]).created
     IN IF events = <<>>
        THEN /\ reduced' = withoutEvents(stream, pending, state)
             /\ UNCHANGED <<snapshots, written>>
        ELSE IF auto(snapshotMode)
             THEN IF snapshotsInsertFails(ReducerName, stream)
                  THEN /\ reduced' = [stream |-> stream, pending |-> pending, outcome |-> "throws", value |-> <<>>]
                       /\ written' = Write(stream, created, result, "throws")
                       /\ UNCHANGED snapshots
                  ELSE /\ Len(snapshots) < MaxSnapshots
                       /\ snapshots' = snapshotsInsert(ReducerName, stream, created, result)
                       /\ written' = Write(stream, created, result, "ok")
                       /\ reduced' = [stream |-> stream, pending |-> pending, outcome |-> "value", value |-> result]
             ELSE /\ reduced' = [stream |-> stream, pending |-> pending, outcome |-> "value", value |-> result]
                  /\ UNCHANGED <<snapshots, written>>
  /\ pendingUsed' = (pendingUsed \/ pending # <<>>)
  /\ UNCHANGED <<adapter, snapshotMode, hooks, ledger, call, before, inserted, emitted, copies, checked, notStore>>

\* EventStore.snapshot.create({ name, stream, reducer })
snapshotCreate(stream) ==
  /\ Finished(call)
  /\ LET events  == getByStreams({stream}, Undefined)
         created == Rec(events[Len(events)]).created
         state   == reducerReduce(events, Undefined)
     IN /\ events # <<>>
        /\ IF snapshotsInsertFails(ReducerName, stream)
           THEN /\ written' = Write(stream, created, state, "throws")
                /\ UNCHANGED snapshots
           ELSE /\ Len(snapshots) < MaxSnapshots
                /\ snapshots' = snapshotsInsert(ReducerName, stream, created, state)
                /\ written' = Write(stream, created, state, "ok")
  /\ reduced' = NoResult
  /\ UNCHANGED <<adapter, snapshotMode, hooks, ledger, call, before, inserted, emitted,
                 pendingUsed, copies, checked, notStore>>

\* EventStore.snapshot.delete(name, stream)
snapshotDelete(stream) ==
  /\ Finished(call)
  /\ snapshotsGetByStream(ReducerName, stream) # Undefined
  /\ snapshots' = snapshotsRemove(ReducerName, stream)
  /\ written' = IF written # Undefined /\ written[1].stream = stream THEN Undefined ELSE written
  /\ reduced' = NoResult
  /\ UNCHANGED <<adapter, snapshotMode, hooks, ledger, call, before, inserted, emitted,
                 pendingUsed, copies, checked, notStore>>

\* the result of a status call
Returns(op, id, exists, outdated) ==
  [op |-> op, id |-> id, exists |-> exists, outdated |-> outdated]

\* getEventStatus reporting a stored record outdated only when a newer one
\* of its stream and type is stored
getEventStatusByCreated(id) ==
  Returns("getEventStatus", id, getById(id) # Undefined, checkOutdated(id))

\* EventStore.getEventStatus(event)
getEventStatus(id) ==
  IF getById(id) # Undefined
  THEN Returns("getEventStatus", id, TRUE, TRUE)
  ELSE Returns("getEventStatus", id, FALSE, checkOutdated(id))

\* a caller asks for the status of a record it holds
storeGetEventStatus(id) ==
  /\ Finished(call)
  /\ checked' = getEventStatus(id)
  /\ UNCHANGED <<adapter, snapshotMode, hooks, ledger, snapshots, call, before, inserted,
                 emitted, reduced, pendingUsed, written, copies, notStore>>

\* a caller asks the events provider whether a record it holds is outdated
eventsCheckOutdated(id) ==
  /\ Finished(call)
  /\ checked' = Returns("checkOutdated", id, FALSE, checkOutdated(id))
  /\ UNCHANGED <<adapter, snapshotMode, hooks, ledger, snapshots, call, before, inserted,
                 emitted, reduced, pendingUsed, written, copies, notStore>>

StoreNext ==
  \/ \E id \in PushIds, emit \in BOOLEAN : pushEvent(id, emit)
  \/ \E records \in PushBatches, emit \in BOOLEAN : pushManyEvents(records, emit)
  \/ \E storageOk \in BOOLEAN : insert(storageOk)
  \/ \E storageOk \in BOOLEAN : insertManyPostgres(storageOk)
  \/ \E storageOk \in BOOLEAN : insertManyBrowser(storageOk)
  \/ \E resolves \in BOOLEAN : onEventsInserted(resolves)
  \/ \E resolves \in BOOLEAN : onError(resolves)

StoreSpec == StoreInit /\ [][StoreNext]_vars

ReduceNext ==
  \/ \E id \in ReduceIds : pushEvent(id, TRUE)
  \/ \E records \in ReduceBatches : pushManyEvents(records, TRUE)
  \/ \E storageOk \in BOOLEAN : insert(storageOk)
  \/ \E storageOk \in BOOLEAN : insertManyPostgres(storageOk)
  \/ \E storageOk \in BOOLEAN : insertManyBrowser(storageOk)
  \/ \E stream \in Streams, pending \in Pendings : reduce(stream, pending)
  \/ \E stream \in Streams : snapshotCreate(stream)
  \/ \E stream \in Streams : snapshotDelete(stream)

ReduceSpec == ReduceInit /\ [][ReduceNext]_vars

\* the records pushed where the claims are about the ledger and the status
\* of a record: 1 and 3 share stream and type, 3 being the older; 2 is newer
\* than both, of another type
LedgerIds == {1, 2, 3}

LedgerBatches == {<<1, 2>>, <<2, 3>>, <<3, 3>>}

\* a store without hooks on any of the three adapters
LedgerInit ==
  /\ adapter \in {"browser", "postgres", "mongo"}
  /\ snapshotMode = "manual"
  /\ hooks = [onEventsInserted |-> FALSE, onError |-> FALSE]
  /\ ledger = {}
  /\ snapshots = <<>>
  /\ call = NoCall
  /\ before = {}
  /\ inserted = <<>>
  /\ emitted = <<>>
  /\ reduced = NoResult
  /\ pendingUsed = FALSE
  /\ written = Undefined
  /\ copies = {}
  /\ checked = NoStatus
  /\ QueueIdle /\ ProjIdle /\ ClockIdle /\ RelIdle /\ AggIdle /\ LegacyIdle

LedgerNext ==
  \/ \E id \in LedgerIds : pushEvent(id, TRUE)
  \/ \E records \in LedgerBatches : pushManyEvents(records, TRUE)
  \/ \E storageOk \in BOOLEAN : insert(storageOk)
  \/ \E storageOk \in BOOLEAN : insertManyPostgres(storageOk)
  \/ \E storageOk \in BOOLEAN : insertManyBrowser(storageOk)
  \/ \E done \in 0..MaxBatch : insertManyMongo(done)
  \/ \E id \in LedgerIds : storeGetEventStatus(id)
  \/ \E id \in LedgerIds : eventsCheckOutdated(id)

LedgerSpec == LedgerInit /\ [][LedgerNext]_vars

-----------------------------------------------------------------------------
(* Properties of the event store *)

PushErrors == {"EventMissingError", "EventValidationError", "EventInsertionError"}

IsPush(c) == c.op \in {"pushEvent", "pushManyEvents"}

\* C1: when pushManyEvents(rs) has failed on an unknown type, a validation
\* failure or an adapter insert failure, no record of rs is in the ledger.
\* Records that were already stored before the call are set aside, so that
\* what is compared is what the failed call itself left behind.
BatchAtomicity ==
  (call.op = "pushManyEvents" /\ call.pc = "failed" /\ call.error \in PushErrors)
    => \A i \in 1..Len(call.records) :
         call.records[i] \notin before => getById(call.records[i]) = Undefined

\* C4: reduce({R, s}) returns the fold of all events stored in s, in
\* ascending created order, onto R's default state, whatever snapshot is
\* stored. Set aside: behaviours in which a reduce call was given pending
\* records, and reduce calls that return undefined or throw.
ReduceSnapshotEquivalence ==
  (reduced.outcome = "value" /\ ~pendingUsed)
    => reduced.value = reducerReduce(getByStreams({reduced.stream}, Undefined), Undefined)

\* C5: a pushManyEvents(rs) call hands the hook nothing but the whole list
\* rs, and when it has succeeded with a hook registered and emit not false
\* the hook was called exactly once, with rs in the given order.
ExactlyOnceEmit ==
  call.op = "pushManyEvents" =>
    /\ emitted \in {<<>>, <<call.records>>}
    /\ (call.pc = "done" /\ call.emit /\ hooks.onEventsInserted) => emitted = <<call.records>>

ExactlyOnceEmitWitness ==
  /\ call.op = "pushManyEvents" /\ call.pc = "done"
  /\ Len(call.records) = 2 /\ call.records[1] # call.records[2]
  /\ emitted = <<call.records>>

\* C6: once the adapter insert has succeeded the push completes successfully
\* and the records stay persisted, whatever the hooks do: a push fails only
\* with one of the errors raised up to the insert.
LocalRecovery ==
  IsPush(call) =>
    /\ call.pc = "failed" => call.error \in PushErrors
    /\ call.pc \in {"hook", "onError", "done"} => Range(call.records) \subseteq ledger

\* C7: when pushEvent or pushManyEvents has failed on validation or on the
\* adapter insert, the onEventsInserted hook was not called for that call.
NoEmitOnFailure ==
  (IsPush(call) /\ call.pc = "failed" /\ call.error \in PushErrors) => emitted = <<>>

NoEmitOnFailureWitness ==
  /\ call.op = "pushManyEvents" /\ call.pc = "failed"
  /\ call.error = "EventInsertionError"
  /\ call.emit /\ hooks.onEventsInserted
  /\ inserted # <<>> /\ emitted = <<>>

\* C8: pushEvent(r) succeeds only if r's type is registered and r passes its
\* validation, and no record handed to the adapter's insert or insertMany
\* has an unknown type or fails validation.
ValidationSoundness ==
  /\ (call.op = "pushEvent" /\ call.pc = "done") => call.records[1] \in Passing
  /\ \A i \in 1..Len(inserted) : Range(inserted[i]) \subseteq Passing

ValidationSoundnessWitness ==
  /\ call.op = "pushEvent" /\ call.pc = "done"
  /\ inserted = <<call.records>>
  /\ call.records[1] \in ledger

\* the snapshot rows held for a stream under the reducer's name
SnapshotsOf(stream) ==
  SelectSeq(snapshots, LAMBDA row : row.name = ReducerName /\ row.stream = stream)

\* the stored events of a stream after the cursor of its snapshot, if any
AfterSnapshot(stream) ==
  LET snapshot == snapshotsGetByStream(ReducerName, stream)
  IN  getByStreams({stream}, IF snapshot = Undefined THEN Undefined
                             ELSE Some(snapshot[1].cursor))

SnapshotStateIsFold ==
  ~pendingUsed =>
    \A i \in 1..Len(snapshots) :
      snapshots[i].state =
        reducerReduce(sortByCreated({id \in ledger :
                         /\ Rec(id).stream = snapshots[i].stream
                         /\ Rec(id).created <= snapshots[i].cursor}), Undefined)

\* C15: at most one snapshot exists for each (name, stream) pair and it is
\* the most recently written one; a write for an existing pair succeeds and
\* replaces the snapshot held. Set aside: behaviours in which a reduce call
\* was given pending records.
SnapshotReplacement ==
  ~pendingUsed =>
  /\ \A stream \in Streams : Len(SnapshotsOf(stream)) <= 1
  /\ written # Undefined =>
       /\ written[1].outcome = "ok"
       /\ LET held == snapshotsGetByStream(ReducerName, written[1].stream)
          IN  /\ held # Undefined
              /\ held[1].cursor = written[1].cursor
              /\ held[1].state = written[1].state

\* C30: reduce writes to the snapshot store only under the auto policy and
\* when it folded at least one event, and what it writes is the one row
\* (name, id, created of the last event folded, result); under the manual
\* policy reduce leaves the snapshot store as it is.
ReduceSnapshotFrame ==
  [][\A stream \in Streams, pending \in Pendings :
       reduce(stream, pending) =>
         LET snapshot == snapshotsGetByStream(ReducerName, stream)
             folded   == getByStreams({stream}, IF snapshot = Undefined THEN Undefined
                                               ELSE Some(snapshot[1].cursor)) \o pending
             writes   == snapshotMode = "auto" /\ folded # <<>>
             row      == [name |-> ReducerName, stream |-> stream,
                          cursor |-> Rec(folded[Len(folded)]).created,
                          state |-> reducerReduce(folded, IF snapshot = Undefined THEN Undefined
                                                          ELSE Some(snapshot[1].state))]
         IN  /\ ~writes => UNCHANGED <<snapshots, written>>
             /\ writes =>
                  /\ written' # Undefined
                  /\ written'[1].stream = row.stream
                  /\ written'[1].cursor = row.cursor
                  /\ written'[1].state = row.state
                  /\ IF written'[1].outcome = "ok"
                     THEN snapshots' = Append(snapshots, row) /\ reduced'.value = row.state
                     ELSE snapshots' = snapshots
             /\ snapshotMode = "manual" => snapshots' = snapshots
    ]_vars

\* under the auto policy a reduce given a pending record has returned its
\* result and the snapshot store holds the row written for it
ReduceSnapshotFrameWitness ==
  /\ snapshotMode = "auto"
  /\ reduced.outcome = "value" /\ reduced.pending # <<>>
  /\ written # Undefined
  /\ written[1].outcome = "ok"
  /\ written[1].stream = reduced.stream
  /\ written[1].state = reduced.value
  /\ written[1].cursor = Rec(reduced.value[Len(reduced.value)]).created
  /\ snapshots # <<>>
  /\ snapshots[Len(snapshots)] = [name |-> ReducerName, stream |-> reduced.stream,
                                  cursor |-> written[1].cursor, state |-> reduced.value]

\* the records pushed where the claims are about the snapshots of several
\* streams: two of stream s1, one of stream s2
SnapshotIds == {1, 2, 4}

\* a store over any of the three adapters, under either snapshot policy
SnapshotInit ==
  /\ adapter \in {"browser", "postgres", "mongo"}
  /\ snapshotMode \in {"manual", "auto"}
  /\ hooks = [onEventsInserted |-> FALSE, onError |-> FALSE]
  /\ ledger = {}
  /\ snapshots = <<>>
  /\ call = NoCall
  /\ before = {}
  /\ inserted = <<>>
  /\ emitted = <<>>
  /\ reduced = NoResult
  /\ pendingUsed = FALSE
  /\ written = Undefined
  /\ copies = {}
  /\ checked = NoStatus
  /\ QueueIdle /\ ProjIdle /\ ClockIdle /\ RelIdle /\ AggIdle /\ LegacyIdle

SnapshotNext ==
  \/ \E id \in SnapshotIds : pushEvent(id, TRUE)
  \/ \E storageOk \in BOOLEAN : insert(storageOk)
  \/ \E stream \in Streams : reduce(stream, <<>>)
  \/ \E stream \in Streams : snapshotCreate(stream)
  \/ \E stream \in Streams : snapshotDelete(stream)

SnapshotSpec == SnapshotInit /\ [][SnapshotNext]_vars

\* C37: writing a snapshot for (name, stream) changes the snapshot of that
\* pair only: getByStream returns for every other stream of the same
\* reducer name what it returned before the write.
SnapshotWriteFrame ==
  [][\A stream \in Streams :
       (snapshotCreate(stream) \/ reduce(stream, <<>>))
         => \A other \in Streams \ {stream} :
              snapshotsGetByStream(ReducerName, other)'
                = snapshotsGetByStream(ReducerName, other)
    ]_vars

\* C16: checkOutdated(r) returns true if and only if the ledger holds a
\* record of the same stream and the same type as r with a strictly greater
\* created.
OutdatedClassification ==
  [][(checked' # checked /\ checked'.op = "checkOutdated")
       => (checked'.outdated <=> newer(checked'.id) # {})]_vars

UniqueIds == copies = {}

-----------------------------------------------------------------------------
(* Queue (libraries/queue.ts) *)

\* A Queue object (NewQueue on construction): status, the pending messages
\* (#queue), and the jobs handed to the handler whose promise chain has not
\* finished. A job is "running" until the promise its handler returned
\* settles.
Job(m, state) == [message |-> m, state |-> state]

\* process without the check of the working status
processUnguarded(q) ==
  IF q.queue = <<>>
  THEN [q EXCEPT !.status = "drained"]
  ELSE [status |-> "working", queue |-> Tail(q.queue),
        jobs |-> q.jobs \cup {Job(Head(q.queue), "running")}]

\* Queue.#process: returns at once when working; else takes the head
\* message and calls the handler with it, or drains when there is none
process(q) ==
  IF q.status = "working" THEN q
  ELSE IF q.queue = <<>>
       THEN [q EXCEPT !.status = "drained"]
       ELSE [status |-> "working", queue |-> Tail(q.queue),
             jobs |-> q.jobs \cup {Job(Head(q.queue), "running")}]

\* Queue.push: enqueue, then #process
push(q, m) == process([q EXCEPT !.queue = Append(@, m)])

\* Queue.flush: keeps the pending messages the filter accepts, or none
\* when no filter is given
flush(q, filter) ==
  [q EXCEPT !.queue = IF filter = Undefined THEN <<>>
                      ELSE SelectSeq(@, LAMBDA m : m \in filter[1])]

\* the handler's promise of job m settles
settled(q, m, state) ==
  [q EXCEPT !.jobs = (@ \ {Job(m, "running")}) \cup {Job(m, state)}]

\* the .finally callback of job j: status idle, then #process
finally(q, j) == process([q EXCEPT !.status = "idle", !.jobs = @ \ {j}])

\* messages whose handler invocation is in flight
inFlight(q) == {j.message : j \in {k \in q.jobs : k.state = "running"}}

QueueInit ==
  /\ QueueIdle
  /\ StoreIdle /\ ProjIdle /\ ClockIdle /\ RelIdle /\ AggIdle /\ LegacyIdle

\* queue.push(message, resolve, reject)
queuePush ==
  /\ pushed < MaxMessages
  /\ pushed' = pushed + 1
  /\ queue' = push(queue, pushed + 1)
  /\ UNCHANGED <<callbacks, notQueue>>

\* queue.flush(filter)
queueFlush(filter) ==
  /\ queue.queue # <<>>
  /\ queue' = flush(queue, filter)
  /\ UNCHANGED <<pushed, callbacks, notQueue>>

\* the promise returned by the handler for message m resolves or rejects
handlerSettles(m, resolves) ==
  /\ m \in inFlight(queue)
  /\ queue' = settled(queue, m, IF resolves THEN "resolved" ELSE "rejected")
  /\ UNCHANGED <<pushed, callbacks, notQueue>>

\* .then(job.resolve).catch(job.reject).finally(...) of a settled job
queueContinues(j) ==
  /\ j \in queue.jobs /\ j.state # "running"
  /\ queue' = finally(queue, j)
  /\ callbacks' = callbacks
       \o << <<j.message, IF j.state = "resolved" THEN "resolve" ELSE "reject">> >>
       \o (IF queue'.status = "drained" THEN << <<j.message, "onDrained">> >> ELSE <<>>)
  /\ UNCHANGED <<pushed, notQueue>>

QueueNext ==
  \/ queuePush
  \/ \E filter \in {Undefined} \cup {Some(S) : S \in SUBSET (1..MaxMessages)} :
       queueFlush(filter)
  \/ \E m \in 1..MaxMessages, resolves \in BOOLEAN : handlerSettles(m, resolves)
  \/ \E j \in queue.jobs : queueContinues(j)

QueueSpec == QueueInit /\ [][QueueNext]_vars

\* C9: on one Queue instance at most one handler invocation is in flight at
\* any time, whatever the interleaving of pushes and handler completions.
OneInFlight == Cardinality(inFlight(queue)) <= 1

OneInFlightWitness ==
  /\ Cardinality(inFlight(queue)) = 1
  /\ queue.queue # <<>>
  /\ callbacks # <<>>

\* C32: the status of a Queue changes only from idle to working, from
\* working to idle (and on, within the same callback, to working or
\* drained) and from working to drained; a drained Queue stays drained
\* whatever is pushed or flushed afterwards.
StatusTransitions ==
  [][\/ queue'.status = queue.status
     \/ queue.status = "idle" /\ queue'.status = "working"
     \/ queue.status = "working" /\ queue'.status \in {"idle", "drained"}
    ]_vars

\* C33: the onDrained hook is invoked only at a moment when the Queue holds
\* no pending message and no handler invocation is in flight.
DrainedWhenEmpty ==
  [][(/\ Len(callbacks') > Len(callbacks)
      /\ callbacks'[Len(callbacks')][2] = "onDrained")
       => /\ queue'.queue = <<>>
          /\ inFlight(queue') = {}
          /\ queue'.status = "drained"
    ]_vars

\* the hook has been invoked after the second of two messages, the first
\* having completed without the Queue draining
DrainedWhenEmptyWitness ==
  /\ Len(callbacks) = 3
  /\ callbacks[1][1] = 1 /\ callbacks[1][2] # "onDrained"
  /\ callbacks[2][1] = 2 /\ callbacks[2][2] # "onDrained"
  /\ callbacks[3] = <<2, "onDrained">>
  /\ queue.status = "drained"

\* C34: flush(predicate) removes from the pending messages exactly those
\* the predicate matches and keeps the others in their order; flush()
\* removes all of them.
FlushRemovesMatching ==
  [][\A filter \in {Undefined} \cup {Some(S) : S \in SUBSET (1..MaxMessages)} :
       queueFlush(filter)
         => queue'.queue = IF filter = Undefined THEN <<>>
                           ELSE SelectSeq(queue.queue, LAMBDA m : m \notin filter[1])
    ]_vars

\* The Queue with handlers that terminate and a runtime that runs the
\* callbacks of settled promises: a promise in flight settles, and the
\* promise chain of a settled job runs.
QueueLiveSpec ==
  /\ QueueSpec
  /\ WF_vars(\E m \in 1..MaxMessages, resolves \in BOOLEAN : handlerSettles(m, resolves))
  /\ WF_vars(\E j \in queue.jobs : queueContinues(j))

\* the completion callbacks invoked for message m so far
Completions(m) ==
  {i \in 1..Len(callbacks) : callbacks[i][1] = m /\ callbacks[i][2] \in {"resolve", "reject"}}

\* C35: every message pushed eventually has exactly one of its completion
\* callbacks invoked, once, given that every handler invocation terminates,
\* whatever pushes and flushes interleave and whether or not handlers of
\* earlier messages rejected.
EveryMessageCompletes ==
  \A m \in 1..MaxMessages : (pushed >= m) ~> (Cardinality(Completions(m)) = 1)

-----------------------------------------------------------------------------
(* Projector (libraries/projector.ts) *)

FILTER_ONCE == [allowHydratedEvents |-> FALSE, allowOutdatedEvents |-> FALSE]

FILTER_CONTINUOUS == [allowHydratedEvents |-> TRUE, allowOutdatedEvents |-> FALSE]

FILTER_ALL == [allowHydratedEvents |-> TRUE, allowOutdatedEvents |-> TRUE]

\* Projector.once: FILTER_ONCE, with the effects the signature requires
once(type) == [mode |-> "once", type |-> type, filter |-> FILTER_ONCE, effects |-> TRUE]

\* Projector.on: FILTER_CONTINUOUS, no effects
on(type) == [mode |-> "on", type |-> type, filter |-> FILTER_CONTINUOUS, effects |-> FALSE]

\* Projector.all: FILTER_ALL, no effects
all(type) == [mode |-> "all", type |-> type, filter |-> FILTER_ALL, effects |-> FALSE]

\* the subscriptions the application makes
Subscriptions == {once("user:created"), on("user:created"), all("user:created")}

\* the (record, status) pairs handed to the projector
Status(hydrated, outdated) == [hydrated |-> hydrated, outdated |-> outdated]

Pushable ==
  {[stream |-> "s1", type |-> "user:created", status |-> Status(FALSE, FALSE)],
   [stream |-> "s1", type |-> "user:created", status |-> Status(TRUE, FALSE)],
   [stream |-> "s1", type |-> "user:created", status |-> Status(FALSE, TRUE)],
   [stream |-> "s2", type |-> "user:created", status |-> Status(TRUE, TRUE)],
   [stream |-> "s1", type |-> "user:email-set", status |-> Status(FALSE, FALSE)]}

\* hasValidState without the check of hydrated
hasValidStateOutdatedOnly(filter, state) ==
  ~(filter.allowOutdatedEvents = FALSE /\ state.outdated = TRUE)

\* Projector.#hasValidState
hasValidState(filter, state) ==
  IF filter.allowHydratedEvents = FALSE /\ state.hydrated = TRUE THEN FALSE
  ELSE IF filter.allowOutdatedEvents = FALSE /\ state.outdated = TRUE THEN FALSE
  ELSE TRUE

\* the queue handler calling every listener the application ever makes,
\* whether it is registered or not
calledOnceSubscribed(r) == {l \in Subscriptions : l.type = r.type}

\* the queue handler of #makeQueue for message m: the listeners of the
\* record's type are all called; each calls its handler when the status
\* passes its filter
called(r) == {l \in listeners : l.type = r.type}

handled(r) == {l \in called(r) : hasValidState(l.filter, r.status)}

\* what the queue q of a stream becomes once the handler it started (if it
\* started one) has made its calls: with no handler in flight the joined
\* promise is resolved already
dispatched(q, old, records) ==
  LET new == inFlight(q) \ old
  IN  IF new = {} THEN [queue |-> q, message |-> Undefined]
      ELSE LET m == CHOOSE n \in new : TRUE
           IN  [queue |-> IF handled(records[m]) = {} THEN settled(q, m, "resolved") ELSE q,
                message |-> Some(m)]

\* the bookkeeping of a dispatch d (result of dispatched)
dispatch(d, records) ==
  IF d.message = Undefined
  THEN UNCHANGED running
  ELSE LET m == d.message[1]
       IN  running' = running \cup {<<l, m>> : l \in handled(records[m])}

ProjInit ==
  /\ ProjIdle
  /\ StoreIdle /\ QueueIdle /\ ClockIdle /\ RelIdle /\ AggIdle /\ LegacyIdle

\* projector.once / on / all
subscribe(l) ==
  /\ l \notin listeners
  /\ listeners' = listeners \cup {l}
  /\ UNCHANGED <<queues, messages, running, promises, reasons, settlement>>
  /\ UNCHANGED <<notProj>>

\* subscription.unsubscribe
unsubscribe(l) ==
  /\ l \in listeners
  /\ listeners' = listeners \ {l}
  /\ UNCHANGED <<queues, messages, running, promises, reasons, settlement>>
  /\ UNCHANGED <<notProj>>

\* one queue serving the records of every stream
queueKeyShared(r) == "s1"

\* Projector.push: the key of #queues a record is queued under, its stream
queueKey(r) == r.stream

\* projector.push(record, status): makes the queue of the stream when there
\* is none, pushes the message on it
projectorPush(r) ==
  /\ Len(messages) < MaxPushes
  /\ LET m == Len(messages) + 1
         q == IF queues[queueKey(r)] = Undefined THEN NewQueue ELSE queues[queueKey(r)][1]
         d == dispatched(push(q, m), inFlight(q), Append(messages, r))
     IN  /\ messages' = Append(messages, r)
         /\ promises' = Append(promises, "pending")
         /\ reasons' = Append(reasons, NoError)
         /\ queues' = [queues EXCEPT ![queueKey(r)] = Some(d.queue)]
         /\ dispatch(d, messages')
  /\ UNCHANGED <<listeners, settlement, notProj>>

\* the error thrown by the handler or by an effect callback of a listener
Failure(mode, from) == [of |-> mode, from |-> from]

\* an effect callback invoked, and what it was handed
Effect(callback, given) == <<callback, given>>

\* The listener #subscribe registers, once the handler of l has settled:
\* .then calls effects.onSuccess when there are effects; .catch, which also
\* receives what the .then callback throws, calls effects.onError when
\* there are effects and throws the error on otherwise. The effect
\* callbacks are not awaited: only what they throw before returning counts.
listener(l, resolves, successThrows, errorThrows) ==
  LET caught(error) ==
        IF l.effects
        THEN [calls |-> <<Effect("onError", error)>>,
              error |-> IF errorThrows THEN Failure(l.mode, "onError") ELSE NoError]
        ELSE [calls |-> <<>>, error |-> Failure(l.mode, error)]
  IN  IF resolves
      THEN IF ~l.effects THEN [calls |-> <<>>, error |-> NoError]
           ELSE IF ~successThrows
                THEN [calls |-> <<Effect("onSuccess", "data")>>, error |-> NoError]
                ELSE [calls |-> <<Effect("onSuccess", "data")>> \o caught("onSuccess").calls,
                      error |-> caught("onSuccess").error]
      ELSE caught("handler")

\* the handler of listener l for message m resolves or rejects, and the
\* listener runs on; Promise.all rejects with the first rejection and
\* resolves when every call has resolved, and a settled promise stays as it
\* is
listenerSettles(l, m, resolves, successThrows, errorThrows) ==
  /\ <<l, m>> \in running
  /\ running' = running \ {<<l, m>>}
  /\ LET stream == messages[m].stream
         result == listener(l, resolves, successThrows, errorThrows)
         throws == result.error # NoError
         open   == queues[stream] # Undefined /\ m \in inFlight(queues[stream][1])
     IN  /\ queues' = [queues EXCEPT ![stream] =
               IF ~open THEN @
               ELSE IF throws THEN Some(settled(@[1], m, "rejected"))
               ELSE IF \E k \in running' : k[2] = m THEN @
               ELSE Some(settled(@[1], m, "resolved"))]
         /\ reasons' = IF open /\ throws THEN [reasons EXCEPT ![m] = result.error] ELSE reasons
         /\ settlement' = [mode |-> l.mode, message |-> m, resolves |-> resolves,
                        calls |-> result.calls, error |-> result.error]
  /\ UNCHANGED <<listeners, messages, promises>>
  /\ UNCHANGED <<notProj>>

\* an onDrained hook that leaves the queue in the map
onDrainedKeeps(q) == Some(q)

\* what the map holds for the stream of queue q once #process has run: the
\* onDrained hook of #makeQueue deletes the entry of a queue that drained
onDrained(q) == IF q.status = "drained" THEN Undefined ELSE Some(q)

\* .then(job.resolve).catch(job.reject).finally(...) of the settled job j of
\* the queue of a stream; a drained queue is deleted (onDrained)
projectorContinues(stream, j) ==
  /\ queues[stream] # Undefined
  /\ j \in queues[stream][1].jobs /\ j.state # "running"
  /\ promises' = [promises EXCEPT ![j.message] = j.state]
  /\ messages' = messages
  /\ LET q == queues[stream][1]
         d == dispatched(finally(q, j), inFlight(q), messages)
     IN  /\ queues' = [queues EXCEPT ![stream] = onDrained(d.queue)]
         /\ dispatch(d, messages)
  /\ UNCHANGED <<listeners, reasons, settlement, notProj>>

Jobs == {Job(m, state) : m \in 1..MaxPushes, state \in {"resolved", "rejected"}}

ProjNext ==
  \/ \E l \in Subscriptions : subscribe(l)
  \/ \E l \in Subscriptions : unsubscribe(l)
  \/ \E r \in Pushable : projectorPush(r)
  \/ \E l \in Subscriptions, m \in 1..MaxPushes, resolves, successThrows, errorThrows \in BOOLEAN :
       listenerSettles(l, m, resolves, successThrows, errorThrows)
  \/ \E stream \in Streams, j \in Jobs : projectorContinues(stream, j)

ProjSpec == ProjInit /\ [][ProjNext]_vars

\* the messages taken from their queue: their listeners have been called
Dispatched ==
  {m \in 1..Len(messages) :
     LET q == queues[messages[m].stream]
     IN  q = Undefined \/ m \notin Range(q[1].queue)}

\* C2: of two records of one stream pushed in order, every listener
\* invocation for the first has completed before any invocation for the
\* second begins.
PerStreamFIFO ==
  \A m1, m2 \in 1..Len(messages) :
    (/\ m1 < m2
     /\ messages[m1].stream = messages[m2].stream
     /\ \E k \in running : k[2] = m2)
      => (m1 \in Dispatched /\ ~\E k \in running : k[2] = m1)

\* C3: a once handler is invoked only for a status neither hydrated nor
\* outdated, an on handler only for a status not outdated, and an all
\* handler registered for the record's type at dispatch is invoked whatever
\* the status.
ModeFiltering ==
  [][/\ \A k \in running' \ running :
          LET status == messages'[k[2]].status
          IN  /\ k[1].mode = "once" => (~status.hydrated /\ ~status.outdated)
              /\ k[1].mode = "on" => ~status.outdated
      /\ \A m \in Dispatched' \ Dispatched : \A l \in listeners :
          (l.mode = "all" /\ l.type = messages'[m].type) => <<l, m>> \in running'
    ]_vars

ModeFilteringWitness ==
  \E m \in 1..Len(messages) :
    /\ messages[m].status = Status(TRUE, FALSE)
    /\ Subscriptions \subseteq listeners
    /\ {k[1].mode : k \in {i \in running : i[2] = m}} = {"on", "all"}
    /\ promises[m] = "pending"

\* C10: the promise returned by push for a record completes only after
\* every listener called for the record has completed, whatever the outcome
\* of each.
SlotCompletesAfterListeners ==
  \A m \in 1..Len(messages) :
    promises[m] # "pending" => ~\E k \in running : k[2] = m

\* C31: a handler invocation in flight for a record of one stream does not
\* delay the dispatch of another stream: a record pushed for a stream whose
\* own queue has no handler in flight has its listeners invoked by the push,
\* whatever is in flight for the other streams.
CrossStreamDispatch ==
  [][\A r \in Pushable :
       (/\ projectorPush(r)
        /\ (queues[r.stream] = Undefined \/ queues[r.stream][1].status # "working"))
         => \A l \in handled(r) : <<l, Len(messages) + 1>> \in running'
    ]_vars

\* the handler of a record of one stream is in flight, and so is the
\* handler of a record of another stream pushed after it
CrossStreamDispatchWitness ==
  \E k1, k2 \in running :
    /\ k1[2] < k2[2]
    /\ messages[k1[2]].stream # messages[k2[2]].stream
    /\ promises[k1[2]] = "pending" /\ promises[k2[2]] = "pending"
    /\ k2[2] \in Dispatched

\* C19: when a handler subscribed with on or all, without effects, fails for
\* a record whose status it accepts, the promise push returned for that
\* record rejects with that failure.
HandlerFailureRejectsPush ==
  (/\ settlement.mode \in {"on", "all"}
   /\ ~settlement.resolves
   /\ promises[settlement.message] # "pending")
    => /\ promises[settlement.message] = "rejected"
       /\ reasons[settlement.message] = Failure(settlement.mode, "handler")

\* C20: for a once subscription and a record whose status it accepts,
\* exactly one effect callback is invoked: onSuccess with the resolved data
\* when the handler's promise resolves, onError with the error when it
\* rejects.
OnceEffects ==
  settlement.mode = "once"
    => settlement.calls = IF settlement.resolves THEN <<Effect("onSuccess", "data")>>
                          ELSE <<Effect("onError", "handler")>>


\* C21: what an effect callback of a once subscription throws is swallowed:
\* it never makes the push for the record reject and never triggers the
\* other callback.
EffectFailuresSwallowed ==
  settlement.mode = "once"
    => /\ settlement.error = NoError
       /\ Effect("onError", "onSuccess") \notin Range(settlement.calls)
       /\ reasons[settlement.message].of # "once"


\* C22: once unsubscribe has returned, the handler is not invoked for any
\* record whose dispatch starts afterwards, records queued before included,
\* while its invocations in flight run on.
UnsubscribeStopsDispatch ==
  [][/\ \A k \in running' \ running : k[1] \in listeners'
     /\ (listeners' # listeners /\ listeners' \subseteq listeners) => running' = running
    ]_vars

\* a listener was unsubscribed while it handled one record; a later record
\* it would have accepted was dispatched without it (no listener has
\* settled yet, so it was never called for that record)
UnsubscribeStopsDispatchWitness ==
  \E l \in Subscriptions \ listeners : \E m1, m2 \in 1..Len(messages) :
    /\ m1 < m2
    /\ <<l, m1>> \in running
    /\ messages[m2].type = l.type /\ hasValidState(l.filter, messages[m2].status)
    /\ m2 \in Dispatched
    /\ <<l, m2>> \notin running
    /\ settlement = NoSettlement


\* C23: the queue of a stream is dropped from the map exactly when it
\* drains, and a later push for the stream makes a new queue that processes
\* the record: no pushed record is left unprocessed in a dropped queue, and
\* once every pushed record is processed the map holds no queue.
QueueLifecycle ==
  /\ \A stream \in Streams :
        queues[stream] # Undefined
          => /\ queues[stream][1].status = "working"
             /\ queues[stream][1].jobs # {}
  /\ \A m \in 1..Len(messages) :
        promises[m] = "pending"
          => LET q == queues[messages[m].stream]
             IN  /\ q # Undefined
                 /\ m \in Range(q[1].queue) \cup {j.message : j \in q[1].jobs}
  /\ (\A m \in 1..Len(messages) : promises[m] # "pending")
        => \A stream \in Streams : queues[stream] = Undefined

\* the first record of a stream is processed; a second record of the stream,
\* pushed before or after the queue of the first drained, is being handled
\* by a queue in the map
QueueLifecycleWitness ==
  \E m1, m2 \in 1..Len(messages) :
    /\ m1 < m2
    /\ messages[m1].stream = messages[m2].stream
    /\ promises[m1] # "pending"
    /\ promises[m2] = "pending"
    /\ queues[messages[m2].stream] # Undefined
    /\ m2 \in inFlight(queues[messages[m2].stream][1])
    /\ \E k \in running : k[2] = m2

-----------------------------------------------------------------------------
(* Hybrid logical clock (libraries/hlc.ts) and timestamp strings
   (libraries/time.ts) *)

\* the values the wall clock (HLC.time) may return, in any order
WallTimes == 10..12

\* the options a clock is built with
ClockOptions ==
  [maxOffset : {0, 1}, timeUpperBound : {0, 12}, toleratedForwardClockJump : {0, 1},
   last : {Undefined, Some(Timestamp(11, 3))}]

\* the timestamps received from other nodes
Foreign == {Timestamp(10, 99997), Timestamp(11, 1), Timestamp(12, 0)}

\* the order of timestamps: by time, then by logical
earlier(a, b) == a.time < b.time \/ (a.time = b.time /\ a.logical < b.logical)

\* Timestamp.bigger: the later of two timestamps
bigger(a, b) == IF earlier(a, b) THEN b ELSE a

\* new HLC(options), the wall clock reading time
HLC(options, time) ==
  [last |-> IF options.last = Undefined THEN Timestamp(time, 0)
            ELSE bigger(Timestamp(options.last[1].time, 0), Timestamp(time, 0)),
   maxOffset |-> options.maxOffset,
   timeUpperBound |-> options.timeUpperBound,
   toleratedForwardClockJump |-> options.toleratedForwardClockJump,
   options |-> [last |-> options.last]]

\* HLC.#validForwardClockJump
validForwardClockJump(c, offset) ==
  ~(c.toleratedForwardClockJump > 0 /\ -offset > c.toleratedForwardClockJump)

\* HLC.#validMaxOffset
validMaxOffset(c, offset) == ~(c.maxOffset > 0 /\ offset > c.maxOffset)

\* HLC.#validOffset: the error it throws, or whether the wall clock is ahead
validOffset(c, last, time) ==
  LET offset == last.time - time
  IN  IF ~validForwardClockJump(c, offset) THEN "HLCForwardJumpError"
      ELSE IF ~validMaxOffset(c, offset) THEN "HLCClockOffsetError"
      ELSE IF offset < 0 THEN "true" ELSE "false"

\* HLC.#validUpperBound: maxTime is timeUpperBound when positive, and
\* Number.MAX_SAFE_INTEGER, above every wall time, otherwise
validUpperBound(c, time) == c.timeUpperBound > 0 => time < c.timeUpperBound

\* what a call on the clock gives: an error thrown, or a timestamp
Thrown(error) == [error |-> error, stamp |-> Undefined, carries |-> <<>>]

Returned(stamp) == [error |-> None, stamp |-> Some(stamp), carries |-> <<>>]

\* new HLCWallTimeOverflowError(time, maxTime): the error and its two properties
HLCWallTimeOverflowError(time, maxTime) ==
  [error |-> "HLCWallTimeOverflowError", stamp |-> Undefined, carries |-> <<time, maxTime>>]

\* getTimeAndLogicalValue keeping the logical value when the wall clock is
\* not ahead
getTimeAndLogicalValueNoTick(c, other, time) ==
  LET last == bigger(other, c.last)
      valid == validOffset(c, last, time)
  IN  IF valid = "true" THEN Returned(Timestamp(time, 0))
      ELSE IF valid = "false" THEN Returned(Timestamp(last.time, last.logical))
      ELSE Thrown(valid)

\* HLC.#getTimeAndLogicalValue
getTimeAndLogicalValue(c, other, time) ==
  LET last == bigger(other, c.last)
      valid == validOffset(c, last, time)
  IN  IF valid = "true" THEN Returned(Timestamp(time, 0))
      ELSE IF valid = "false" THEN Returned(Timestamp(last.time, last.logical + 1))
      ELSE Thrown(valid)

\* HLC.#getTimestamp
getTimestamp(c, other, time) ==
  LET value == getTimeAndLogicalValue(c, other, time)
  IN  IF value.error # None THEN value
      ELSE IF ~validUpperBound(c, value.stamp[1].time)
           THEN HLCWallTimeOverflowError(value.stamp[1].time, value.stamp[1].logical)
      ELSE value

\* update returning the timestamp made without assigning it to last
updateReturning(c, other, time) ==
  [clock |-> c, result |-> getTimestamp(c, other, time)]

\* HLC.update: last becomes the timestamp made, and stays when one of the
\* checks throws
update(c, other, time) ==
  LET result == getTimestamp(c, other, time)
  IN  [clock |-> IF result.error = None THEN [c EXCEPT !.last = result.stamp[1]] ELSE c,
       result |-> result]

\* HLC.now
now(c, time) == update(c, c.last, time)

RECURSIVE String(_)
\* String(n) of a natural number: its decimal digits, as character codes
String(n) == IF n < 10 THEN <<48 + n>> ELSE String(n \div 10) \o <<48 + (n % 10)>>

RECURSIVE padStart(_, _, _)
\* String.padStart: the string filled at the start up to the length given
padStart(str, length, fill) ==
  IF Len(str) >= length THEN str ELSE padStart(<<fill>> \o str, length, fill)

\* the template of getLogicalTimestamp: time, "-", logical padded to 5
serialize(ts) == String(ts.time) \o <<45>> \o padStart(String(ts.logical), 5, 48)

\* the order of strings: the first differing character decides, and a
\* proper prefix comes first
stringLess(s, t) ==
  \E i \in 1..(Min(Len(s), Len(t)) + 1) :
    /\ \A j \in 1..(i - 1) : s[j] = t[j]
    /\ IF i > Len(s) THEN i <= Len(t)
       ELSE i <= Len(t) /\ s[i] < t[i]

ClockInit ==
  /\ \E options \in ClockOptions, time \in WallTimes : clock = HLC(options, time)
  /\ stamps = <<>>
  /\ StoreIdle /\ QueueIdle /\ ProjIdle /\ RelIdle /\ AggIdle /\ LegacyIdle

\* what a call leaves behind in the history
Called(op, result, string) ==
  [op |-> op, error |-> result.error, stamp |-> result.stamp, carries |-> result.carries,
   string |-> string]

\* clock.now(), the wall clock reading time
clockNow(time) ==
  /\ Len(stamps) < MaxTicks
  /\ LET made == now(clock, time)
     IN  /\ clock' = made.clock
         /\ stamps' = Append(stamps, Called("now", made.result, Undefined))
  /\ UNCHANGED notClock

\* clock.update(other), the wall clock reading time
clockUpdate(other, time) ==
  /\ Len(stamps) < MaxTicks
  /\ LET made == update(clock, other, time)
     IN  /\ clock' = made.clock
         /\ stamps' = Append(stamps, Called("update", made.result, Undefined))
  /\ UNCHANGED notClock

\* getLogicalTimestamp(): the string of clock.now()
getLogicalTimestamp(time) ==
  /\ Len(stamps) < MaxTicks
  /\ LET made == now(clock, time)
     IN  /\ clock' = made.clock
         /\ stamps' = Append(stamps, Called("now", made.result,
                         IF made.result.error = None
                         THEN Some(serialize(made.result.stamp[1])) ELSE Undefined))
  /\ UNCHANGED notClock

ClockNext ==
  \/ \E time \in WallTimes : clockNow(time)
  \/ \E other \in Foreign, time \in WallTimes : clockUpdate(other, time)
  \/ \E time \in WallTimes : getLogicalTimestamp(time)

ClockSpec == ClockInit /\ [][ClockNext]_vars

\* the calls of now() that returned
Nows == {i \in 1..Len(stamps) : stamps[i].op = "now" /\ stamps[i].error = None}

\* C11: each successful now() returns a (time, logical) pair strictly
\* greater than the pair returned by every earlier successful now() on the
\* instance, whatever the wall clock does.
TimestampMonotonicity ==
  \A i, j \in Nows : i < j => earlier(stamps[i].stamp[1], stamps[j].stamp[1])

TimestampMonotonicityWitness ==
  \E i, j \in Nows :
    /\ i < j
    /\ stamps[i].stamp[1].time = stamps[j].stamp[1].time
    /\ stamps[i].stamp[1].logical < stamps[j].stamp[1].logical
    /\ \E k \in 1..Len(stamps) : stamps[k].error # None

\* C12: of two timestamps a < b ordered by (time, logical), the string of
\* a is smaller than the string of b.
StringOrder ==
  \A i, j \in 1..Len(stamps) :
    (/\ stamps[i].string # Undefined /\ stamps[j].string # Undefined
     /\ earlier(stamps[i].stamp[1], stamps[j].stamp[1]))
      => stringLess(stamps[i].string[1], stamps[j].string[1])

\* the call made last
LastCall == stamps[Len(stamps)]

\* C27: a successful update(other), the wall clock reading physical and
\* candidate being the greater of other and last by (time, logical), returns
\* (physical, 0) when physical is greater than candidate.time and
\* (candidate.time, candidate.logical + 1) otherwise, and last becomes the
\* timestamp returned.
UpdateResult ==
  [][\A other \in Foreign, physical \in WallTimes :
       (clockUpdate(other, physical) /\ LastCall'.error = None)
         => LET candidate == IF earlier(other, clock.last) THEN clock.last ELSE other
                result == IF physical > candidate.time
                          THEN Timestamp(physical, 0)
                          ELSE Timestamp(candidate.time, candidate.logical + 1)
            IN  /\ LastCall'.stamp = Some(result)
                /\ clock'.last = result
    ]_vars

\* an update has returned the timestamp after the one received, the wall
\* clock being behind it, and a later update the wall clock's reading
UpdateResultWitness ==
  \E i, j \in 1..Len(stamps) :
    /\ i < j /\ j = Len(stamps)
    /\ stamps[i].op = "update" /\ stamps[i].stamp = Some(Timestamp(11, 2))
    /\ stamps[j].op = "update" /\ stamps[j].stamp = Some(Timestamp(12, 0))
    /\ clock.last = Timestamp(12, 0)

\* C38: a clock constructed with the option last = (t, l) never returns
\* from now() or update() a timestamp that is less than or equal to (t, l),
\* whatever the wall clock reads.
AfterLastOption ==
  clock.options.last # Undefined =>
    \A i \in 1..Len(stamps) :
      stamps[i].error = None => earlier(clock.options.last[1], stamps[i].stamp[1])

\* C39: the timestamp a successful update(other) returns is strictly
\* greater, by (time, logical), than other and than last as it was before
\* the call; a call of update or now that fails with the forward jump, clock
\* offset or wall time overflow error leaves last as it was.
UpdateAdvances ==
  [][\A other \in Foreign \cup {clock.last}, physical \in WallTimes :
       (\/ clockUpdate(other, physical)
        \/ other = clock.last /\ (clockNow(physical) \/ getLogicalTimestamp(physical)))
         => IF LastCall'.error = None
            THEN /\ earlier(other, LastCall'.stamp[1])
                 /\ earlier(clock.last, LastCall'.stamp[1])
            ELSE /\ LastCall'.error \in {"HLCForwardJumpError", "HLCClockOffsetError",
                                         "HLCWallTimeOverflowError"}
                 /\ clock'.last = clock.last
    ]_vars

\* an update has failed, and a later update has returned the timestamp
\* after the one it received, which last was behind
UpdateAdvancesWitness ==
  \E i \in 1..Len(stamps) :
    /\ i < Len(stamps)
    /\ stamps[i].op = "update" /\ stamps[i].error # None
    /\ LastCall.op = "update"
    /\ LastCall.stamp = Some(Timestamp(10, 99998))
    /\ clock.last = Timestamp(10, 99998)

\* C28: now() and update() fail with the wall time overflow error whenever
\* the time computed is at or above the maximal wall time (timeUpperBound
\* when positive, Number.MAX_SAFE_INTEGER, above every wall time, otherwise);
\* the error carries that time and the maximal wall time; no timestamp with
\* a time at or above the maximal wall time is returned.
WallTimeOverflow ==
  [][\A other \in Foreign \cup {clock.last}, physical \in WallTimes :
       (\/ clockUpdate(other, physical)
        \/ other = clock.last /\ (clockNow(physical) \/ getLogicalTimestamp(physical)))
         => LET candidate == bigger(other, clock.last)
                time == IF physical > candidate.time THEN physical ELSE candidate.time
                over == clock.timeUpperBound > 0 /\ time >= clock.timeUpperBound
                offset == LastCall'.error \in {"HLCForwardJumpError", "HLCClockOffsetError"}
            IN  /\ ~offset => (over <=> LastCall'.error = "HLCWallTimeOverflowError")
                /\ LastCall'.error = "HLCWallTimeOverflowError"
                     => LastCall'.carries = <<time, clock.timeUpperBound>>
                /\ LastCall'.error = None
                     => ~(clock.timeUpperBound > 0
                          /\ LastCall'.stamp[1].time >= clock.timeUpperBound)
    ]_vars

-----------------------------------------------------------------------------
(* Relations providers (adapters/*/providers/relations.ts) *)

\* the relational keys the application uses
Keys == {"k1", "k2"}

\* { key, stream }
Relation(key, stream) == [key |-> key, stream |-> stream]

Relations == {Relation(key, stream) : key \in Keys, stream \in Streams}

\* the payloads handed to insertMany and removeMany
Payloads == {<<a>> : a \in Relations} \cup {<<a, b>> : a, b \in Relations}

\* the operation lists handed to handle: at most one insert and one remove
Operations ==
  [insert : {<<>>} \cup {<<a>> : a \in Relations},
   remove : {<<>>} \cup {<<a>> : a \in Relations}]

RECURSIVE insertRows(_, _)
\* The table after the provider has inserted the payloads, one by one. The
\* postgres provider inserts ON CONFLICT DO NOTHING against UNIQUE (key,
\* stream) and the mongo provider adds the stream to the set of the key:
\* both skip a pair the table holds. The browser provider inserts a new
\* document { key, stream } into a collection without a unique index.
insertRows(rows, payloads) ==
  IF payloads = <<>> THEN rows
  ELSE insertRows(IF adapter # "browser" /\ Head(payloads) \in Range(rows) THEN rows
                  ELSE Append(rows, Head(payloads)),
                  Tail(payloads))

\* The table after the provider has removed the payloads: every row of a
\* removed pair goes
removeRows(rows, payloads) ==
  SelectSeq(rows, LAMBDA row : row \notin Range(payloads))

\* RelationsProvider.getByKey: the streams of the rows of the key
getByKey(key) ==
  LET rows == SelectSeq(relations, LAMBDA row : row.key = key)
  IN  [i \in 1..Len(rows) |-> rows[i].stream]

\* a store on any of the three adapters, its relations table empty
RelInit ==
  /\ adapter \in {"browser", "postgres", "mongo"}
  /\ snapshotMode = "manual"
  /\ hooks = [onEventsInserted |-> FALSE, onError |-> FALSE]
  /\ ledger = {}
  /\ snapshots = <<>>
  /\ call = NoCall
  /\ before = {}
  /\ inserted = <<>>
  /\ emitted = <<>>
  /\ reduced = NoResult
  /\ pendingUsed = FALSE
  /\ written = Undefined
  /\ copies = {}
  /\ checked = NoStatus
  /\ relations = <<>>
  /\ QueueIdle /\ ProjIdle /\ ClockIdle /\ AggIdle /\ LegacyIdle

\* RelationsProvider.insert(key, stream)
relationsInsert(key, stream) ==
  /\ relations' = insertRows(relations, <<Relation(key, stream)>>)
  /\ Len(relations') <= MaxRelations
  /\ UNCHANGED <<storeVars, notRel>>

\* RelationsProvider.insertMany(relations)
relationsInsertMany(payloads) ==
  /\ relations' = insertRows(relations, payloads)
  /\ Len(relations') <= MaxRelations
  /\ UNCHANGED <<storeVars, notRel>>

\* RelationsProvider.remove(key, stream)
relationsRemove(key, stream) ==
  /\ relations' = removeRows(relations, <<Relation(key, stream)>>)
  /\ UNCHANGED <<storeVars, notRel>>

\* RelationsProvider.handle(relations): insertMany of the inserts and
\* removeMany of the removes run concurrently, so either may reach the
\* table first
relationsHandle(operations, insertFirst) ==
  /\ relations' = IF insertFirst
                  THEN removeRows(insertRows(relations, operations.insert), operations.remove)
                  ELSE insertRows(removeRows(relations, operations.remove), operations.insert)
  /\ Len(relations') <= MaxRelations
  /\ UNCHANGED <<storeVars, notRel>>

RelNext ==
  \/ \E key \in Keys, stream \in Streams : relationsInsert(key, stream)
  \/ \E payloads \in Payloads : relationsInsertMany(payloads)
  \/ \E key \in Keys, stream \in Streams : relationsRemove(key, stream)
  \/ \E operations \in Operations, insertFirst \in BOOLEAN :
       relationsHandle(operations, insertFirst)

RelSpec == RelInit /\ [][RelNext]_vars

\* C24: after any sequence of relation insert, insertMany, handle and
\* remove operations the table holds at most one row per (key, stream):
\* inserting a pair again leaves getByKey(key) with one occurrence of the
\* stream.
RelationUniqueness ==
  \A key \in Keys : \A i, j \in 1..Len(getByKey(key)) :
    getByKey(key)[i] = getByKey(key)[j] => i = j


-----------------------------------------------------------------------------
(* Aggregates *)

MaxPending == 2     \* most records one aggregate holds pending

\* The payloads the callers hand to EventStore.event and AggregateRoot.push:
\* payload id has the type, data and meta of Rec(id), and the record made of
\* it is Rec(id). Two make a record, one fails validation, one is of an
\* unregistered type.
EventPayloads == PushIds

\* Event.record: the record is made and validated; the result is "record" or
\* the error thrown
record(e, id) == IF validate(e, id) # <<>> THEN "EventValidationError" ELSE "record"

\* EventStore.event: the registered event of the payload's type makes the record
event(id) ==
  IF get(Rec(id).type) = Undefined THEN "Error"
  ELSE record(get(Rec(id).type)[1], id)

\* AggregateRoot.isDirty
isDirty(a) == Len(aggregates[a]) > 0

\* AggregateRoot.toPending
toPending(a) == aggregates[a]

\* Event.record gives every record an id of its own: the payloads whose
\* record is in no pending list and not in the events table
fresh(id) == id \notin ledger /\ \A a \in Aggregates : id \notin Range(aggregates[a])

\* the aggregate lists handed to aggregate.push
AggregateLists == {<<"a1">>, <<"a1", "a2">>, <<"a2", "a1">>}

\* aggregate.push, the first loop: the pending records of the aggregates, in
\* the order the aggregates are listed
RECURSIVE events(_, _)
events(pendings, of) ==
  IF of = <<>> THEN <<>> ELSE pendings[Head(of)] \o events(pendings, Tail(of))

\* AggregateRoot.flush on each aggregate listed
flushed(pendings, of) ==
  [a \in Aggregates |-> IF a \in Range(of) THEN <<>> ELSE pendings[a]]

\* the rest of save flushing whatever its flush argument is
continuedFlushing(pendings, s, ok) ==
  IF ok THEN flushed(pendings, s.of) ELSE pendings

\* The rest of save and of aggregate.push once pushManyEvents has settled:
\* the aggregates are flushed when it resolved and flush is true
continued(pendings, s, ok) ==
  IF ok /\ s.flush THEN flushed(pendings, s.of) ELSE pendings

AggInit ==
  /\ adapter \in {"browser", "postgres", "mongo"}
  /\ snapshotMode = "manual"
  /\ hooks \in [onEventsInserted : BOOLEAN, onError : {FALSE}]
  /\ ledger = {}
  /\ snapshots = <<>>
  /\ call = NoCall
  /\ before = {}
  /\ inserted = <<>>
  /\ emitted = <<>>
  /\ reduced = NoResult
  /\ pendingUsed = FALSE
  /\ written = Undefined
  /\ copies = {}
  /\ checked = NoStatus
  /\ AggIdle
  /\ QueueIdle /\ ProjIdle /\ ClockIdle /\ RelIdle /\ LegacyIdle

\* EventStore.event
storeEvent(id) ==
  /\ recorded' = [payload |-> id, outcome |-> event(id)]
  /\ UNCHANGED <<storeVars, aggregates, saving, notAgg>>

\* AggregateRoot.push: the record made by EventStore.event is appended to
\* #pending; nothing is appended when event throws
aggregatePush(a, id) ==
  /\ fresh(id)
  /\ Len(aggregates[a]) < MaxPending
  /\ recorded' = [payload |-> id, outcome |-> event(id)]
  /\ aggregates' = IF event(id) = "record"
                   THEN [aggregates EXCEPT ![a] = Append(@, id)] ELSE aggregates
  /\ UNCHANGED <<storeVars, saving, notAgg>>

\* pushManyEvents called by save or aggregate.push, up to the adapter call
submitted(op, of, records, emit, flushing) ==
  /\ call' = started("pushManyEvents", records, emit)
  /\ before' = ledger
  /\ inserted' = <<>>
  /\ emitted' = <<>>
  /\ reduced' = NoResult
  /\ saving' = [op |-> op, of |-> of, flush |-> flushing, pc |-> "await",
                batch |-> records, calls |-> 1]
  /\ recorded' = NoEvent
  /\ UNCHANGED <<adapter, snapshotMode, hooks, ledger, snapshots, pendingUsed, written,
                 copies, checked, aggregates, notAgg>>

\* AggregateRoot.save up to the await: it returns at once when the aggregate
\* is not dirty
aggregateSave(a, emit, flushing) ==
  /\ Finished(call) /\ saving.pc # "await"
  /\ IF isDirty(a)
     THEN submitted("save", <<a>>, toPending(a), emit, flushing)
     ELSE /\ saving' = [op |-> "save", of |-> <<a>>, flush |-> flushing, pc |-> "returned",
                        batch |-> <<>>, calls |-> 0]
          /\ recorded' = NoEvent
          /\ UNCHANGED <<storeVars, aggregates, notAgg>>

\* EventStore.aggregate.push up to the await
storeAggregatePush(of, emit) ==
  /\ Finished(call) /\ saving.pc # "await"
  /\ submitted("aggregate.push", of, events(aggregates, of), emit, TRUE)

\* save / aggregate.push after the await: pushManyEvents has settled
saveContinues ==
  /\ saving.pc = "await" /\ Finished(call)
  /\ saving' = [saving EXCEPT !.pc = IF call.pc = "done" THEN "returned" ELSE "threw"]
  /\ aggregates' = continued(aggregates, saving, call.pc = "done")
  /\ UNCHANGED <<storeVars, recorded, notAgg>>

AggNext ==
  \/ \E id \in EventPayloads : storeEvent(id)
  \/ \E a \in Aggregates, id \in EventPayloads : aggregatePush(a, id)
  \/ \E a \in Aggregates, emit, flushing \in BOOLEAN : aggregateSave(a, emit, flushing)
  \/ \E of \in AggregateLists, emit \in BOOLEAN : storeAggregatePush(of, emit)
  \/ \E storageOk \in BOOLEAN : insertManyPostgres(storageOk)
  \/ \E storageOk \in BOOLEAN : insertManyBrowser(storageOk)
  \/ \E done \in 0..(2 * MaxPending) : insertManyMongo(done)
  \/ \E resolves \in BOOLEAN : onEventsInserted(resolves)
  \/ saveContinues

AggSpec == AggInit /\ [][AggNext]_vars

\* the step is the return (resolved or not) of a call of the given method
Settles(op) == saving.op = op /\ saving.pc = "await" /\ saving'.pc # "await"

\* C25: isDirty is true exactly when the pending list is non-empty: a push
\* that appends makes the aggregate dirty; save on a clean aggregate returns
\* without any store operation; a save that resolves with flush = true leaves
\* the aggregate clean; a save with flush = false, or one whose
\* pushManyEvents fails, leaves the pending list as it is.
AggregateDirty ==
  [][/\ \A a \in Aggregates :
          /\ isDirty(a) <=> aggregates[a] # <<>>
          /\ Len(aggregates'[a]) > Len(aggregates[a]) => isDirty(a)'
     /\ (saving' # saving /\ saving.pc # "await" /\ saving'.op = "save"
           /\ ~isDirty(saving'.of[1]))
          => /\ saving'.pc = "returned" /\ saving'.calls = 0
             /\ UNCHANGED <<storeVars, aggregates>>
     /\ (Settles("save") /\ saving'.pc = "returned" /\ saving.flush)
          => ~isDirty(saving.of[1])'
     /\ (Settles("save") /\ (~saving.flush \/ saving'.pc = "threw"))
          => aggregates' = aggregates
    ]_vars

\* a save of a dirty aggregate with flush = true has resolved: its records
\* are stored and the aggregate is clean
AggregateDirtyWitness ==
  /\ saving.op = "save" /\ saving.pc = "returned" /\ saving.flush
  /\ saving.calls = 1
  /\ saving.batch # <<>>
  /\ Range(saving.batch) \subseteq ledger
  /\ ~isDirty(saving.of[1])

\* C26: aggregate.push submits the pending records of all the aggregates, in
\* aggregate order, as the one batch of one pushManyEvents call, which makes
\* one adapter insert and at most one hook call; every aggregate is flushed
\* when the call resolves; when it fails no aggregate is flushed and no
\* record of the batch is stored.
AggregatePushAtomic ==
  [][/\ (saving' # saving /\ saving'.op = "aggregate.push" /\ saving'.pc = "await")
          => /\ call'.op = "pushManyEvents"
             /\ call'.records = events(aggregates, saving'.of)
     /\ (saving.op = "aggregate.push")
          => /\ Len(inserted) <= 1 /\ Len(emitted) <= 1
             /\ \A i \in 1..Len(inserted) : inserted[i] = saving.batch
             /\ \A i \in 1..Len(emitted) : emitted[i] = saving.batch
     /\ (Settles("aggregate.push") /\ saving'.pc = "returned")
          => /\ \A a \in Range(saving.of) : ~isDirty(a)'
             /\ Range(saving.batch) \subseteq ledger
     /\ (Settles("aggregate.push") /\ saving'.pc = "threw")
          => /\ aggregates' = aggregates
             /\ ledger = before
    ]_vars

\* C36: a record pushed onto an aggregate while a save or aggregate.push of
\* that aggregate awaits the store is not lost: when the call completes,
\* every record the aggregate held pending is stored in the events table or
\* is still pending.
PendingNeverLost ==
  [][(saving.pc = "await" /\ saving'.pc # "await")
       => \A a \in Range(saving.of) : \A id \in Range(aggregates[a]) :
            id \in ledger' \/ id \in Range(aggregates'[a])
    ]_vars

\* C29: EventStore.event given a payload of a type that is not registered
\* throws the error pushEvent throws for a record of that type,
\* EventMissingError.
EventMissing ==
  (recorded # NoEvent /\ get(Rec(recorded.payload).type) = Undefined)
    => recorded.outcome = rejection(<<recorded.payload>>)

-----------------------------------------------------------------------------
(* Legacy stores: push and pushSequence of the pg and sqlite stores *)

\* calls made on the legacy store in one run
MaxCalls == 3

\* the records pushed one at a time: one valid, one whose data does not
\* parse, one of a type the store does not know
LegacyIds == {1, 5, 6}

\* the sequences pushed: one record twice, and two valid records of which
\* one is also pushed alone
LegacySequences == {<<1, 1>>, <<4, 1>>}

\* number of rows of the list that hold the record
rowsOf(list, id) == Cardinality({i \in 1..Len(list) : list[i] = id})

\* SQLiteEventStore.has / PGEventStore.has
has(type) == get(type) # Undefined

\* getEventStatus of the legacy stores: exists is true when events.getById
\* finds a row with the record's id
legacyEventStatus(id) == [exists |-> rowsOf(legacy.events, id) > 0]

\* validateEventRecord: true when the record passes; the validator of the
\* record's type, when there is one, parses the data
validateEventRecord(id) == ~(has(Rec(id).type) /\ Rec(id).data = "bad")

\* The events table with the rows inserted without regard to its key.
eventsInsertUnkeyed(rows) == Some(legacy.events \o rows)

\* EventProvider.insert of the rows, in one transaction when there is more
\* than one: the table after it, undefined when the statement fails. id is
\* the PRIMARY KEY of the table, so a row whose id is stored already, or
\* occurs twice among the rows, fails the statement and the transaction is
\* rolled back.
eventsInsert(rows) ==
  IF duplicates(rows, Range(legacy.events)) # {} THEN Undefined
  ELSE Some(legacy.events \o rows)

\* a call as it stands once made: nothing checked yet
pushCall(op, records) ==
  [op |-> op, records |-> records, pc |-> "status", at |-> 1, inserts |-> <<>>]

\* store.push(record) -> pushEventRecord(store, record, hydrated)
pushEventRecord(id) ==
  /\ Len(pushes) < MaxCalls
  /\ pushes' = Append(pushes, pushCall("push", <<id>>))
  /\ UNCHANGED <<legacy, notLegacy>>

\* store.pushSequence(records) -> pushEventRecordSequence(store, records);
\* the stores that have it check store.has
pushEventRecordSequence(records) ==
  /\ legacy.typed
  /\ Len(pushes) < MaxCalls
  /\ pushes' = Append(pushes, pushCall("pushSequence", records))
  /\ UNCHANGED <<legacy, notLegacy>>

\* where the call goes once the record at c.at is dealt with
afterStatus(c, inserts) ==
  [c EXCEPT !.inserts = inserts,
            !.at = IF c.at = Len(c.records) THEN 1 ELSE c.at + 1,
            !.pc = IF c.at < Len(c.records) THEN "status"
                   ELSE IF c.op = "push" /\ inserts = <<>> THEN "returned"
                   ELSE "insert"]

\* The call's await of getEventStatus settles for the record at c.at: an
\* unknown type throws, a record that exists is skipped, the others are
\* validated and kept for insertion.
statusSettles(k) ==
  LET c  == pushes[k]
      id == c.records[c.at]
  IN  /\ c.pc = "status"
      /\ pushes' = [pushes EXCEPT ![k] =
           IF legacy.typed /\ ~has(Rec(id).type) THEN [c EXCEPT !.pc = "threw"]
           ELSE IF legacyEventStatus(id).exists THEN afterStatus(c, c.inserts)
           ELSE IF ~validateEventRecord(id) THEN [c EXCEPT !.pc = "threw"]
           ELSE afterStatus(c, Append(c.inserts, id))]
      /\ UNCHANGED <<legacy, notLegacy>>

\* insertEventRecord of the one record, or the transaction inserting the
\* records kept by pushEventRecordSequence
insertSettles(k) ==
  LET c     == pushes[k]
      table == eventsInsert(c.inserts)
  IN  /\ c.pc = "insert"
      /\ IF table = Undefined
         THEN /\ pushes' = [pushes EXCEPT ![k].pc = "threw"]
              /\ UNCHANGED legacy
         ELSE /\ legacy' = [legacy EXCEPT !.events = table[1]]
              /\ pushes' = [pushes EXCEPT ![k].pc =
                              IF c.inserts = <<>> THEN "returned" ELSE "contextor"]
      /\ UNCHANGED notLegacy

\* pushEventRecordUpdates, first half: store.contextor.push(record); a
\* failure is reported to afterEventError and the call goes on
contextorSettles(k) ==
  LET c == pushes[k]
  IN  /\ c.pc = "contextor"
      /\ legacy' = [legacy EXCEPT !.contextor = Append(@, c.inserts[c.at])]
      /\ pushes' = [pushes EXCEPT ![k].pc = "projector"]
      /\ UNCHANGED notLegacy

\* pushEventRecordUpdates, second half: store.projector.project(record)
projectorSettles(k) ==
  LET c == pushes[k]
  IN  /\ c.pc = "projector"
      /\ legacy' = [legacy EXCEPT !.projector = Append(@, c.inserts[c.at])]
      /\ pushes' = [pushes EXCEPT ![k] =
           IF c.at < Len(c.inserts)
           THEN [c EXCEPT !.at = c.at + 1, !.pc = "contextor"]
           ELSE [c EXCEPT !.pc = "returned"]]
      /\ UNCHANGED notLegacy

\* a store built on the helpers that check store.has (typed), or on the
\* earlier ones that do not
LegacyInit ==
  /\ legacy \in [typed : BOOLEAN, events : {<<>>}, contextor : {<<>>}, projector : {<<>>}]
  /\ pushes = <<>>
  /\ StoreIdle /\ QueueIdle /\ ProjIdle /\ ClockIdle /\ RelIdle /\ AggIdle

LegacyNext ==
  \/ \E id \in LegacyIds : pushEventRecord(id)
  \/ \E records \in LegacySequences : pushEventRecordSequence(records)
  \/ \E k \in 1..Len(pushes) : statusSettles(k)
  \/ \E k \in 1..Len(pushes) : insertSettles(k)
  \/ \E k \in 1..Len(pushes) : contextorSettles(k)
  \/ \E k \in 1..Len(pushes) : projectorSettles(k)

LegacySpec == LegacyInit /\ [][LegacyNext]_vars

\* C40: in the legacy stores a record whose id is in the events table is not
\* inserted again and not handed to the contextor or the projector again:
\* however often and in whatever interleaving a record is pushed, by push or
\* by pushSequence, the events table holds at most one row of it, and the
\* contextor and the projector were given it at most once, and only when it
\* is stored.
LegacyIdempotent ==
  \A id \in 1..Len(Records) :
    /\ rowsOf(legacy.events, id) <= 1
    /\ rowsOf(legacy.contextor, id) <= 1
    /\ rowsOf(legacy.projector, id) <= 1
    /\ rowsOf(legacy.contextor, id) + rowsOf(legacy.projector, id) > 0
         => rowsOf(legacy.events, id) = 1

\* record 1 was pushed three times, once by a call that found it stored and
\* returned, once by a call that checked before it was stored and failed on
\* the insert: it is stored once and was projected once
LegacyIdempotentWitness ==
  /\ \E j, k, l \in 1..Len(pushes) :
       /\ pushes[j].pc = "returned" /\ pushes[j].inserts = <<1>>
       /\ pushes[k].pc = "returned" /\ pushes[k].records = <<1>> /\ pushes[k].inserts = <<>>
       /\ pushes[l].pc = "threw" /\ pushes[l].inserts = <<1>>
  /\ rowsOf(legacy.events, 1) = 1
  /\ rowsOf(legacy.projector, 1) = 1

=============================================================================
